---- MODULE Spec2Model ----
(***************************************************************************)
(* SHAVER: the financial engine of src/streamlit.py.                       *)
(*                                                                         *)
(* One call of calculate_cashflows(params) is modelled: the params dict is *)
(* drawn, then the function is executed block by block (cost, peak         *)
(* reduction, savings, the NPV loop, the payback scan, the IRR extraction, *)
(* the return).  The params range over the function's input domain, which  *)
(* is wider than what the widgets of the script let through.               *)
(*                                                                         *)
(* Numbers.  A Python number is modelled as n/d * 10^e with n/d in lowest  *)
(* terms.  Ordinary values have e = 0 and are computed exactly (binary     *)
(* rounding of the last bit is not modelled).  The exponent e carries the  *)
(* magnitude of very large floats, for which two properties of IEEE        *)
(* doubles are kept: a sum absorbs an operand that is AbsorbDigits decimal *)
(* orders smaller, and float ** int raises OverflowError from              *)
(* 10^(DblMax10Exp + 1) on.  The very large values drawn are powers of     *)
(* ten, for which both are exact.                                          *)
(***************************************************************************)
EXTENDS Integers, Sequences, FiniteSets

----------------------------------------------------------------------------
(* Bounds of the model *)

\* largest analysis_years drawn
MaxYears == 3
\* numerators and denominators of the candidate roots p/q of the IRR polynomial
RootNum == 4
RootDen == 2
\* decimal exponent of the one very large discount rate drawn (10^HugeExp percent)
HugeExp == 200

----------------------------------------------------------------------------
(* Python arithmetic *)

Abs(x) == IF x < 0 THEN -x ELSE x

RECURSIVE GCD(_, _)
GCD(a, b) == IF b = 0 THEN a ELSE GCD(b, a % b)

\* the number n/d * 10^e, d > 0, in normal form
Num(n, d, e) ==
    IF n = 0 THEN [n |-> 0, d |-> 1, e |-> 0]
    ELSE LET g == GCD(Abs(n), d) IN [n |-> n \div g, d |-> d \div g, e |-> e]

Rat(n, d) == Num(n, d, 0)
Zero == Rat(0, 1)
One == Rat(1, 1)

RECURSIVE Pow10(_)
Pow10(k) == IF k = 0 THEN 1 ELSE 10 * Pow10(k - 1)

\* sys.float_info: a double holds 10^308 and not 10^309; 1 + x == x from x = 10^17 on
DblMax10Exp == 308
AbsorbDigits == 17

Neg(x) == [x EXCEPT !.n = -x.n]

Mul(x, y) == Num(x.n * y.n, x.d * y.d, x.e + y.e)

\* x / y for y # 0 (the caller raises ZeroDivisionError for y = 0)
Div(x, y) ==
    IF y.n > 0 THEN Num(x.n * y.d, x.d * y.n, x.e - y.e)
    ELSE Num(-(x.n * y.d), x.d * (-y.n), x.e - y.e)

\* |x| >= 10^k (n and d have fewer than ten digits)
Exceeds(x, k) ==
    LET m == Abs(x.n)
        s == k - x.e
    IN  IF m = 0 \/ s >= 10 THEN FALSE
        ELSE IF s <= -10 THEN TRUE
        ELSE IF s >= 0 THEN m >= x.d * Pow10(s)
        ELSE m * Pow10(-s) >= x.d

\* x + y: an operand AbsorbDigits orders of magnitude below the other is
\* absorbed (x + y == x); otherwise the sum is exact
Add(x, y) ==
    CASE x.n = 0 -> y
      [] y.n = 0 -> x
      [] Exceeds(Div(x, y), AbsorbDigits) -> x
      [] Exceeds(Div(y, x), AbsorbDigits) -> y
      [] x.e >= y.e ->
            Num(x.n * Pow10(x.e - y.e) * y.d + y.n * x.d, x.d * y.d, y.e)
      [] OTHER ->
            Num(y.n * Pow10(y.e - x.e) * x.d + x.n * y.d, x.d * y.d, x.e)

Sub(x, y) == Add(x, Neg(y))

\* the sign of x: -1, 0 or 1
Sign(x) == IF x.n > 0 THEN 1 ELSE IF x.n < 0 THEN -1 ELSE 0

\* x < y
Lt(x, y) == Sign(Sub(x, y)) < 0

\* x <= y
Le(x, y) == Sign(Sub(x, y)) <= 0

\* min(x, y): Python returns the first argument unless the second is smaller
Min(x, y) == IF Lt(y, x) THEN y ELSE x

\* x ** k for an int k >= 0
RECURSIVE Pow(_, _)
Pow(x, k) == IF k = 0 THEN One ELSE Mul(x, Pow(x, k - 1))

\* float ** int raises OverflowError when the result is out of range
PowOverflows(x, k) == Exceeds(Pow(x, k), DblMax10Exp + 1)

\* seq[i] with Python's 0-based index
At(seq, i) == seq[i + 1]

----------------------------------------------------------------------------
(* The params dict *)

\* the values drawn for each parameter; peak_duration_hours = 0 is the one
\* invalid value drawn (the formula of the energy limit divides by it)
PeakLoads == {Rat(1, 1), Rat(2, 1)}
PeakDurations == {Rat(0, 1), Rat(1, 2), Rat(1, 1), Rat(3, 1)}
DemandCharges == {Rat(0, 1), Rat(1, 1)}
BatteryPowers == {Rat(0, 1), Rat(1, 1), Rat(2, 1)}
BatteryCapacities == {Rat(0, 1), Rat(1, 1), Rat(3, 1)}
InstallationFactors == {Rat(0, 1), Rat(1, 2)}
BatteryCosts == {Rat(0, 1), Rat(3, 1), Rat(7, 1), Rat(8, 1)}
InverterCosts == {Rat(0, 1), Rat(3, 1)}
DiscountRates == {Rat(0, 1), Rat(25, 1), Rat(100, 1), Num(1, 1, HugeExp)}
AnalysisYears == 1 .. MaxYears

Params ==
    [peak_load_kw : PeakLoads,
     peak_duration_hours : PeakDurations,
     battery_power_kw : BatteryPowers,
     battery_capacity_kwh : BatteryCapacities,
     peak_demand_charge : DemandCharges,
     battery_cost_per_kwh : BatteryCosts,
     inverter_cost_per_kw : InverterCosts,
     installation_factor : InstallationFactors,
     discount_rate : DiscountRates,
     analysis_years : AnalysisYears]

\* values that are no finite number have d = 0: Python's None (also a local not
\* yet assigned), float('inf'), and a float the candidate roots do not hold
None == [n |-> 0, d |-> 0, e |-> 0]
Inf == [n |-> 1, d |-> 0, e |-> 0]
OffGrid == [n |-> 2, d |-> 0, e |-> 0]

NoCosts ==
    [battery_cost |-> None, inverter_cost |-> None, installation_cost |-> None,
     total_cost |-> None]

NoResults ==
    [years |-> <<>>, npv_values |-> <<>>, annual_savings |-> None,
     system_costs |-> NoCosts, peak_reduction |-> None, irr |-> None,
     payback_period |-> None]

VARIABLES
    params,                 \* the params dict
    pc,                     \* the block of calculate_cashflows to execute next
    costs,                  \* calculate_system_cost's result
    total_system_cost,
    actual_peak_reduction,
    annual_savings,
    years,
    cash_flows,
    discount_rate,
    npv_values,
    running_npv,
    year,                   \* the position of "for year in years"
    payback_period,
    i,                      \* the position of "for i, npv in enumerate(npv_values)"
    irr,
    caught,                 \* the exception the except clause of the IRR block swallowed
    exception,              \* the exception that left calculate_cashflows
    results                 \* the returned dict

vars == <<params, pc, costs, total_system_cost, actual_peak_reduction,
          annual_savings, years, cash_flows, discount_rate, npv_values,
          running_npv, year, payback_period, i, irr, caught, exception, results>>

Init ==
    /\ params \in Params
    /\ pc = "system_cost"
    /\ costs = NoCosts
    /\ total_system_cost = None
    /\ actual_peak_reduction = None
    /\ annual_savings = None
    /\ years = <<>>
    /\ cash_flows = <<>>
    /\ discount_rate = None
    /\ npv_values = <<>>
    /\ running_npv = None
    /\ year = 0
    /\ payback_period = None
    /\ i = 0
    /\ irr = None
    /\ caught = "None"
    /\ exception = "None"
    /\ results = NoResults

----------------------------------------------------------------------------
(* calculate_system_cost *)

\* calculate_system_cost with the installation factor applied as a multiplier
\* (1 + factor is meant, the factor alone is given)
calculate_system_cost_markup(p) ==
    LET battery_cost == Mul(p.battery_capacity_kwh, p.battery_cost_per_kwh)
        inverter_cost == Mul(p.battery_power_kw, p.inverter_cost_per_kw)
        installation_cost == Mul(Add(battery_cost, inverter_cost),
                                 Add(One, p.installation_factor))
    IN  [battery_cost |-> battery_cost,
         inverter_cost |-> inverter_cost,
         installation_cost |-> installation_cost,
         total_cost |-> Add(Add(battery_cost, inverter_cost), installation_cost)]

\* calculate_system_cost with the inverter priced per kWh of capacity
calculate_system_cost_per_kwh(p) ==
    LET battery_cost == Mul(p.battery_capacity_kwh, p.battery_cost_per_kwh)
        inverter_cost == Mul(p.battery_capacity_kwh, p.inverter_cost_per_kw)
        installation_cost == Mul(Add(battery_cost, inverter_cost), p.installation_factor)
    IN  [battery_cost |-> battery_cost,
         inverter_cost |-> inverter_cost,
         installation_cost |-> installation_cost,
         total_cost |-> Add(Add(battery_cost, inverter_cost), installation_cost)]

calculate_system_cost(p) ==
    LET battery_cost == Mul(p.battery_capacity_kwh, p.battery_cost_per_kwh)
        inverter_cost == Mul(p.battery_power_kw, p.inverter_cost_per_kw)
        installation_cost == Mul(Add(battery_cost, inverter_cost), p.installation_factor)
    IN  [battery_cost |-> battery_cost,
         inverter_cost |-> inverter_cost,
         installation_cost |-> installation_cost,
         total_cost |-> Add(Add(battery_cost, inverter_cost), installation_cost)]

\* costs = calculate_system_cost(params); total_system_cost = costs['total_cost']
SystemCost ==
    /\ pc = "system_cost"
    /\ costs' = calculate_system_cost(params)
    /\ total_system_cost' = costs'.total_cost
    /\ pc' = "peak_reduction"
    /\ UNCHANGED <<params, actual_peak_reduction, annual_savings, years, cash_flows,
                   discount_rate, npv_values, running_npv, year, payback_period, i,
                   irr, caught, exception, results>>

----------------------------------------------------------------------------
(* calculate_cashflows: peak reduction and savings *)

\* the round-trip efficiency 0.9
RoundTripEfficiency == Rat(9, 10)

power_limited_reduction(p) == Min(p.battery_power_kw, p.peak_load_kw)

\* the energy limit without the round-trip efficiency
energy_limited_reduction_lossless(p) ==
    Min(Div(p.battery_capacity_kwh, p.peak_duration_hours), p.peak_load_kw)

energy_limited_reduction(p) ==
    Min(Div(Mul(p.battery_capacity_kwh, RoundTripEfficiency), p.peak_duration_hours),
        p.peak_load_kw)

peak_reduction(p) == Min(power_limited_reduction(p), energy_limited_reduction(p))

\* the division by peak_duration_hours raises ZeroDivisionError, which leaves
\* the function
PeakReduction ==
    /\ pc = "peak_reduction"
    /\ IF params.peak_duration_hours.n = 0
       THEN /\ exception' = "ZeroDivisionError"
            /\ pc' = "raised"
            /\ UNCHANGED actual_peak_reduction
       ELSE /\ actual_peak_reduction' = peak_reduction(params)
            /\ pc' = "annual_savings"
            /\ UNCHANGED exception
    /\ UNCHANGED <<params, costs, total_system_cost, annual_savings, years, cash_flows,
                   discount_rate, npv_values, running_npv, year, payback_period, i,
                   irr, caught, results>>

MonthsPerYear == Rat(12, 1)

\* the savings with the demand charge left out
savings_uncharged(reduction, p) == Mul(reduction, MonthsPerYear)

savings(reduction, p) ==
    LET monthly_savings == Mul(reduction, p.peak_demand_charge)
    IN  Mul(monthly_savings, MonthsPerYear)

AnnualSavings ==
    /\ pc = "annual_savings"
    /\ annual_savings' = savings(actual_peak_reduction, params)
    /\ pc' = "cash_flows"
    /\ UNCHANGED <<params, costs, total_system_cost, actual_peak_reduction, years,
                   cash_flows, discount_rate, npv_values, running_npv, year,
                   payback_period, i, irr, caught, exception, results>>

----------------------------------------------------------------------------
(* calculate_cashflows: the cash flows and the cumulative NPV *)

Hundred == Rat(100, 1)

\* list(range(1, n + 1))
Range_from_one(n) == [k \in 1 .. n |-> k]

\* list(range(n))
Range(n) == [k \in 1 .. n |-> k - 1]

\* [x] * n
Repeat(x, n) == [k \in 1 .. n |-> x]

\* the discount rate fixed at 8%
decimal_rate_fixed(p) == Rat(8, 100)

\* params['discount_rate'] / 100
decimal_rate(p) == Div(p.discount_rate, Hundred)

GenerateCashFlows ==
    /\ pc = "cash_flows"
    /\ years' = Range(params.analysis_years + 1)
    /\ cash_flows' = <<Neg(total_system_cost)>> \o Repeat(annual_savings, params.analysis_years)
    /\ discount_rate' = decimal_rate(params)
    /\ npv_values' = <<>>
    /\ running_npv' = Neg(total_system_cost)
    /\ year' = 0
    /\ pc' = "npv_loop"
    /\ UNCHANGED <<params, costs, total_system_cost, actual_peak_reduction,
                   annual_savings, payback_period, i, irr, caught, exception, results>>

\* annual_savings / ((1 + discount_rate) ** year)
discounted(savings_, rate, y) == Div(savings_, Pow(Add(One, rate), y))

\* running_npv = term: the year's own discounted value, not the running total
accumulate_marginal(running, term) == term

\* running_npv += term
accumulate(running, term) == Add(running, term)

\* one turn of "for year in years"; the loop ends when years is exhausted
NpvLoop ==
    /\ pc = "npv_loop"
    /\ IF year = Len(years)
       THEN /\ pc' = "payback"
            /\ UNCHANGED <<running_npv, npv_values, year, exception>>
       ELSE LET y == At(years, year) IN
            IF y = 0
            THEN /\ npv_values' = Append(npv_values, running_npv)
                 /\ year' = year + 1
                 /\ UNCHANGED <<running_npv, pc, exception>>
            ELSE IF PowOverflows(Add(One, discount_rate), y)
            THEN /\ exception' = "OverflowError"
                 /\ pc' = "raised"
                 /\ UNCHANGED <<running_npv, npv_values, year>>
            ELSE IF Pow(Add(One, discount_rate), y).n = 0
            THEN /\ exception' = "ZeroDivisionError"
                 /\ pc' = "raised"
                 /\ UNCHANGED <<running_npv, npv_values, year>>
            ELSE /\ running_npv' = accumulate(running_npv, discounted(annual_savings, discount_rate, y))
                 /\ npv_values' = Append(npv_values, running_npv')
                 /\ year' = year + 1
                 /\ UNCHANGED <<pc, exception>>
    /\ UNCHANGED <<params, costs, total_system_cost, actual_peak_reduction,
                   annual_savings, years, cash_flows, discount_rate, payback_period, i,
                   irr, caught, results>>

----------------------------------------------------------------------------
(* calculate_cashflows: the payback period *)

\* npv > 0
NonNegative_strict(npv) == Sign(npv) > 0

\* npv >= 0
NonNegative(npv) == Sign(npv) >= 0

\* one turn of "for i, npv in enumerate(npv_values)"; the loop ends at the first
\* hit (break) or when npv_values is exhausted
PaybackLoop ==
    /\ pc = "payback"
    /\ IF i = Len(npv_values)
       THEN /\ pc' = "irr"
            /\ UNCHANGED <<payback_period, i>>
       ELSE IF NonNegative(At(npv_values, i))
       THEN /\ payback_period' = Rat(i, 1)
            /\ pc' = "irr"
            /\ UNCHANGED i
       ELSE /\ i' = i + 1
            /\ UNCHANGED <<payback_period, pc>>
    /\ UNCHANGED <<params, costs, total_system_cost, actual_peak_reduction,
                   annual_savings, years, cash_flows, discount_rate, npv_values,
                   running_npv, year, irr, caught, exception, results>>

----------------------------------------------------------------------------
(* calculate_cashflows: the internal rate of return *)

\* the coefficients lowest power first
coefficients_ascending(cost, savings_, n) == Repeat(Neg(savings_), n) \o <<cost>>

\* [total_system_cost] + [-annual_savings] * analysis_years: the polynomial's
\* coefficients, highest power first
coefficients(cost, savings_, n) == <<cost>> \o Repeat(Neg(savings_), n)

\* the value of the polynomial at x (Horner)
RECURSIVE polyval(_, _)
polyval(p, x) ==
    IF p = <<>> THEN Zero
    ELSE Add(Mul(polyval(SubSeq(p, 1, Len(p) - 1), x), x), p[Len(p)])

\* the real numbers p/q the roots are looked for among
RootGrid == {Rat(a, b) : a \in (-RootNum) .. RootNum, b \in 1 .. RootDen}

SetMin(S) == CHOOSE x \in S : \A z \in S : x <= z
SetMax(S) == CHOOSE x \in S : \A z \in S : x >= z

\* p without its leading and trailing zero coefficients (p has a nonzero one)
Trimmed(p) ==
    LET non_zero == {k \in 1 .. Len(p) : p[k].n # 0}
    IN  SubSeq(p, SetMin(non_zero), SetMax(non_zero))

\* np.roots(p), its real roots: none for the zero polynomial; otherwise the roots
\* of the trimmed polynomial and a root 0 for the trailing zeros
np_roots(p) ==
    LET non_zero == {k \in 1 .. Len(p) : p[k].n # 0}
    IN  IF non_zero = {} THEN {}
        ELSE LET q == Trimmed(p)
                 trailing_zeros == Len(p) - SetMax(non_zero)
             IN  (IF Len(q) > 1 THEN {x \in RootGrid : polyval(q, x) = Zero} ELSE {})
                 \cup (IF trailing_zeros > 0 THEN {Zero} ELSE {})

\* the number of sign changes in the sequence of the nonzero coefficients
SignChanges(p) ==
    LET non_zero == {k \in 1 .. Len(p) : p[k].n # 0}
    IN  Cardinality({k \in non_zero :
            \E m \in non_zero :
                /\ m > k
                /\ \A j \in non_zero : ~(k < j /\ j < m)
                /\ Sign(p[k]) # Sign(p[m])})

\* np.roots(p) holds a positive real root that RootGrid does not: a polynomial
\* whose coefficients change sign once has exactly one positive root, one
\* without a sign change has none (Descartes)
PositiveRootOffGrid(p) ==
    /\ SignChanges(p) = 1
    /\ {x \in np_roots(p) : Sign(x) > 0} = {}

\* float(root) - 1
RateOf(root) == Sub(root, One)

\* the outcomes of the try block: the rate of a root that passes the filter
\* (r.real > 0 and a zero imaginary part), or the IndexError of [0] on an empty list
TryIrr(cost, savings_, n) ==
    LET found == {r \in np_roots(coefficients(cost, savings_, n)) : Sign(r) > 0}
    IN  IF found # {}
        THEN {[irr |-> RateOf(r), raised |-> "None"] : r \in found}
        ELSE IF PositiveRootOffGrid(coefficients(cost, savings_, n))
        THEN {[irr |-> OffGrid, raised |-> "None"]}
        ELSE {[irr |-> None, raised |-> "IndexError"]}

\* try: ... except: irr = 0
Irr ==
    /\ pc = "irr"
    /\ \E t \in TryIrr(total_system_cost, annual_savings, params.analysis_years) :
          /\ irr' = IF t.raised = "None" THEN t.irr ELSE Zero
          /\ caught' = t.raised
    /\ pc' = "return"
    /\ UNCHANGED <<params, costs, total_system_cost, actual_peak_reduction,
                   annual_savings, years, cash_flows, discount_rate, npv_values,
                   running_npv, year, payback_period, i, exception, results>>

----------------------------------------------------------------------------
(* calculate_cashflows: the result *)

Return ==
    /\ pc = "return"
    /\ results' =
          [years |-> years,
           npv_values |-> npv_values,
           annual_savings |-> annual_savings,
           system_costs |-> costs,
           peak_reduction |-> actual_peak_reduction,
           irr |-> irr,
           payback_period |-> IF payback_period # None THEN payback_period ELSE Inf]
    /\ pc' = "returned"
    /\ UNCHANGED <<params, costs, total_system_cost, actual_peak_reduction,
                   annual_savings, years, cash_flows, discount_rate, npv_values,
                   running_npv, year, payback_period, i, irr, caught, exception>>

----------------------------------------------------------------------------

Next ==
    \/ SystemCost
    \/ PeakReduction
    \/ AnnualSavings
    \/ GenerateCashFlows
    \/ NpvLoop
    \/ PaybackLoop
    \/ Irr
    \/ Return

Spec == Init /\ [][Next]_vars

----------------------------------------------------------------------------
(* The claims *)

\* the constraints of the input table: what "a valid input" means in the claims
ValidInput(p) ==
    /\ Sign(p.peak_load_kw) > 0
    /\ Sign(p.peak_duration_hours) > 0
    /\ Sign(p.battery_power_kw) >= 0
    /\ Sign(p.battery_capacity_kwh) >= 0
    /\ Sign(p.peak_demand_charge) >= 0
    /\ Sign(p.battery_cost_per_kwh) >= 0
    /\ Sign(p.inverter_cost_per_kw) >= 0
    /\ Sign(p.installation_factor) >= 0
    /\ Sign(p.discount_rate) >= 0
    /\ p.analysis_years >= 1

Returned == pc = "returned"

\* C1: the returned payback_period is the smallest index i in 0..analysis_years
\* with npv_values[i] >= 0 (npv_values[payback_period] >= 0 and every earlier
\* entry is negative), and it is float('inf') exactly when no entry is >= 0.
C1_PaybackIsFirstNonNegative ==
    (Returned /\ ValidInput(params)) =>
        LET pb == results.payback_period
            npv == results.npv_values
            idx == 0 .. params.analysis_years
        IN  /\ pb # Inf =>
                /\ pb.d = 1 /\ pb.e = 0 /\ pb.n \in idx
                /\ Sign(At(npv, pb.n)) >= 0
                /\ \A j \in idx : j < pb.n => Sign(At(npv, j)) < 0
            /\ pb = Inf <=> \A j \in idx : Sign(At(npv, j)) < 0

\* a run that pays back in a later year, at an NPV of exactly zero
C1_Witness ==
    /\ Returned /\ ValidInput(params)
    /\ results.payback_period # Inf
    /\ results.payback_period.n > 1
    /\ At(results.npv_values, results.payback_period.n) = Zero

\* C2: the result has years = 0, 1, ..., analysis_years, as many npv_values as
\* years, analysis_years + 1 of each, and npv_values[0] = -total_cost of the
\* returned cost breakdown.
C2_ShapeOfResult ==
    (Returned /\ ValidInput(params)) =>
        /\ Len(results.years) = params.analysis_years + 1
        /\ Len(results.npv_values) = params.analysis_years + 1
        /\ \A k \in 0 .. params.analysis_years : At(results.years, k) = k
        /\ Add(At(results.npv_values, 0), results.system_costs.total_cost) = Zero

C2_Witness ==
    /\ Returned /\ ValidInput(params)
    /\ params.analysis_years > 1
    /\ Sign(results.system_costs.total_cost) > 0

\* C3: with annual_savings >= 0 and discount_rate >= 0 the returned npv_values
\* never decrease: npv_values[j] <= npv_values[j+1] for j in 0..analysis_years-1.
C3_NpvNonDecreasing ==
    (Returned /\ Sign(results.annual_savings) >= 0 /\ Sign(params.discount_rate) >= 0) =>
        \A j \in 0 .. params.analysis_years - 1 :
            Sign(Sub(At(results.npv_values, j + 1), At(results.npv_values, j))) >= 0

\* a run over several years whose NPV does grow
C3_Witness ==
    /\ Returned
    /\ params.analysis_years > 1
    /\ Sign(results.annual_savings) > 0
    /\ Sign(Sub(At(results.npv_values, 2), At(results.npv_values, 1))) > 0

\* C4: with peak_duration_hours > 0 the returned peak_reduction is the minimum of
\* battery_power_kw, peak_load_kw and battery_capacity_kwh * 0.9 /
\* peak_duration_hours: it is one of the three and exceeds none of them.
C4_PeakReductionIsMin ==
    (Returned /\ Sign(params.peak_duration_hours) > 0) =>
        LET energy == Div(Mul(params.battery_capacity_kwh, Rat(9, 10)),
                          params.peak_duration_hours)
            r == results.peak_reduction
        IN  /\ r \in {params.battery_power_kw, params.peak_load_kw, energy}
            /\ Sign(Sub(params.battery_power_kw, r)) >= 0
            /\ Sign(Sub(params.peak_load_kw, r)) >= 0
            /\ Sign(Sub(energy, r)) >= 0

\* a run in which the stored energy, not the power or the load, is the limit
C4_Witness ==
    /\ Returned
    /\ Sign(Sub(params.battery_power_kw, results.peak_reduction)) > 0
    /\ Sign(Sub(params.peak_load_kw, results.peak_reduction)) > 0

\* C5 as stated: with peak_demand_charge = 0 every valid input returns
\* annual_savings = 0, payback_period = float('inf') and irr = 0.
C5_ZeroChargeNeverPaysBack ==
    (Returned /\ ValidInput(params) /\ params.peak_demand_charge = Zero) =>
        /\ results.annual_savings = Zero
        /\ results.payback_period = Inf
        /\ results.irr = Zero

\* C5, amended: with peak_demand_charge = 0 every valid input returns
\* annual_savings = 0 and irr = 0; payback_period is float('inf') when
\* total_cost > 0 and is 0 when total_cost = 0 (npv_values[0] = -0 >= 0).
C5_ZeroChargeDegeneracy ==
    (Returned /\ ValidInput(params) /\ params.peak_demand_charge = Zero) =>
        /\ results.annual_savings = Zero
        /\ results.irr = Zero
        /\ (Sign(results.system_costs.total_cost) > 0 => results.payback_period = Inf)
        /\ (results.system_costs.total_cost = Zero => results.payback_period = Zero)

\* a system that costs something and saves nothing
C5_Witness ==
    /\ Returned /\ ValidInput(params)
    /\ params.peak_demand_charge = Zero
    /\ Sign(params.battery_power_kw) > 0
    /\ Sign(results.system_costs.total_cost) > 0
    /\ results.payback_period = Inf

RECURSIVE SeriesNpv(_, _, _, _)
SeriesNpv(cost, savings_, n, r) ==
    IF n = 0 THEN Neg(cost)
    ELSE Add(SeriesNpv(cost, savings_, n - 1, r), Div(savings_, Pow(Add(One, r), n)))

\* C7: every valid input returns a result (no exception leaves
\* calculate_cashflows), and when total_system_cost = 0, or annual_savings = 0,
\* or the root computation found no positive real root or failed, the returned
\* irr is 0.
C7_TotalWithIrrSentinel ==
    ValidInput(params) =>
        /\ pc # "raised"
        /\ (/\ Returned
            /\ \/ results.system_costs.total_cost = Zero
               \/ results.annual_savings = Zero
               \/ caught # "None")
           => results.irr = Zero

\* C8: with annual_savings > 0 and total_system_cost > 0 the returned irr is the
\* rate of a root of the polynomial, not the fallback, and it is the one rate r
\* with 1 + r > 0 at which the series has zero NPV. Checked where the root is
\* one of the candidates p/q.
C8_IrrIsTheZeroNpvRate ==
    (Returned /\ Sign(results.annual_savings) > 0
              /\ Sign(results.system_costs.total_cost) > 0) =>
        /\ caught = "None"
        /\ results.irr # OffGrid =>
              /\ Sign(Add(One, results.irr)) > 0
              /\ SeriesNpv(results.system_costs.total_cost, results.annual_savings,
                           params.analysis_years, results.irr) = Zero
              /\ \A x \in RootGrid :
                    (/\ Sign(x) > 0
                     /\ SeriesNpv(results.system_costs.total_cost, results.annual_savings,
                                  params.analysis_years, Sub(x, One)) = Zero)
                    => Sub(x, One) = results.irr

\* a run over several years with a nonzero rate of return among the candidates
C8_Witness ==
    /\ Returned
    /\ Sign(results.annual_savings) > 0
    /\ Sign(results.system_costs.total_cost) > 0
    /\ params.analysis_years > 2
    /\ results.irr # OffGrid
    /\ results.irr # Zero

\* C9: calculate_system_cost returns battery_cost = capacity * battery cost,
\* inverter_cost = power * inverter cost, installation_cost = (battery_cost +
\* inverter_cost) * installation_factor and their sum as total_cost; for
\* non-negative inputs total_cost >= battery_cost + inverter_cost >= 0; and
\* total_cost is the total_system_cost calculate_cashflows uses.
C9_SystemCostBreakdown ==
    (pc # "system_cost") =>
        LET equipment == Add(Mul(params.battery_capacity_kwh, params.battery_cost_per_kwh),
                             Mul(params.battery_power_kw, params.inverter_cost_per_kw))
        IN  /\ costs.battery_cost = Mul(params.battery_capacity_kwh, params.battery_cost_per_kwh)
            /\ costs.inverter_cost = Mul(params.battery_power_kw, params.inverter_cost_per_kw)
            /\ costs.installation_cost = Mul(equipment, params.installation_factor)
            /\ costs.total_cost = Mul(equipment, Add(One, params.installation_factor))
            /\ Sign(costs.total_cost) >= 0
            /\ Sign(Sub(costs.total_cost, equipment)) >= 0
            /\ total_system_cost = costs.total_cost
            /\ Returned => /\ results.system_costs = costs
                           /\ At(results.npv_values, 0) = Neg(costs.total_cost)

\* a system with a battery, an inverter and an installation cost
C9_Witness ==
    /\ Returned
    /\ Sign(costs.battery_cost) > 0
    /\ Sign(costs.inverter_cost) > 0
    /\ Sign(costs.installation_cost) > 0

\* C10: npv_values is cumulative: for every year in 1..analysis_years,
\* npv_values[year] = npv_values[year-1] + annual_savings / (1 + d)^year with d
\* the caller's discount_rate percent / 100 and annual_savings = peak_reduction
\* * peak_demand_charge * 12, the same for every year.
C10_CumulativeDiscountedNpv ==
    Returned =>
        LET d == Div(params.discount_rate, Rat(100, 1))
            s == Mul(Mul(results.peak_reduction, params.peak_demand_charge), Rat(12, 1))
        IN  /\ results.annual_savings = s
            /\ \A y \in 1 .. params.analysis_years :
                  At(results.npv_values, y) =
                      Add(At(results.npv_values, y - 1), Div(s, Pow(Add(One, d), y)))

\* a run over several years with savings and a nonzero discount rate
C10_Witness ==
    /\ Returned
    /\ params.analysis_years > 1
    /\ Sign(results.annual_savings) > 0
    /\ params.discount_rate = Rat(25, 1)
    /\ Sign(results.system_costs.total_cost) > 0

====
